---- MODULE Spec2Model ----
(***************************************************************************)
(* Assertion core of httpexpect: Object (object.go) and Match (match.go).   *)
(*                                                                          *)
(* A wrapper is a record [chain, value].  The chain field is a Go struct    *)
(* VALUE (`chain chain`), so `&Array{o.chain, keys}` stores a copy of the   *)
(* chain as it is at that moment; the Reporter behind it is shared.         *)
(* A call is modelled by a frame: the wrapper plus `rep`, the Failures the  *)
(* call has forwarded to the Reporter so far, and `path`, the methods the   *)
(* call has entered.                                                        *)
(***************************************************************************)
EXTENDS Integers, Sequences, FiniteSets, TLC

VARIABLES root, derived, last, cm

vars == <<root, derived, last, cm>>

(***************************************************************************)
(* Bounds                                                                   *)
(***************************************************************************)
MaxDerived == 1
MaxSub == 2

(***************************************************************************)
(* Values.  Raw Go inputs: int, float64, string, slice, map, chan.          *)
(* Canonical values: num (float64), str, slice, map; nil is the nil         *)
(* interface, nilmap the nil map[string]interface{}.                        *)
(***************************************************************************)
GoInt(n) == [t |-> "int", n |-> n]
GoFloat(n) == [t |-> "float", n |-> n]
Num(n) == [t |-> "num", n |-> n]
Str(s) == [t |-> "str", s |-> s]
Slice(q) == [t |-> "slice", q |-> q]
Map(m) == [t |-> "map", m |-> m]
Chan == [t |-> "chan"]
Nil == [t |-> "nil"]
NilMap == [t |-> "nilmap", m |-> <<>>]
EmptyMap == Map([k \in {} |-> Nil])

IsMap(v) == v.t = "map"

\* outer[k] with Go's comma-ok: the zero value (nil interface) when absent
Lookup(v, k) == IF k \in DOMAIN v.m THEN v.m[k] ELSE Nil

RECURSIVE DeepEqual(_, _)
DeepEqual(a, b) ==
    IF a.t # b.t THEN FALSE
    ELSE CASE a.t \in {"num", "int", "float"} -> a.n = b.n
           [] a.t = "str" -> a.s = b.s
           [] a.t = "slice" ->
                /\ Len(a.q) = Len(b.q)
                /\ \A i \in 1..Len(a.q) : DeepEqual(a.q[i], b.q[i])
           [] a.t = "map" ->
                /\ DOMAIN a.m = DOMAIN b.m
                /\ \A k \in DOMAIN a.m : DeepEqual(a.m[k], b.m[k])
           [] OTHER -> TRUE

(***************************************************************************)
(* Chain and Failure                                                        *)
(***************************************************************************)
makeChain == [failbit |-> FALSE]

failed(c) == c.failbit

Failure(name, type, expected, actual) ==
    [assertionName |-> name, assertType |-> type,
     expected |-> expected, actual |-> actual]

None == [t |-> "none"]

\* c is a frame or a bare chain context: anything with chain and rep
fail(c, failure) ==
    [c EXCEPT !.chain = [failbit |-> TRUE], !.rep = Append(c.rep, failure)]

\* the receiver of a call, with nothing reported and no method entered yet
Frame(w) == [chain |-> w.chain, value |-> w.value, rep |-> <<>>, path |-> <<>>]

Into(o, name) == [o EXCEPT !.path = Append(o.path, name)]

(***************************************************************************)
(* Canonicalizer                                                            *)
(***************************************************************************)
RECURSIVE Canonicalizable(_)
Canonicalizable(v) ==
    CASE v.t \in {"int", "float", "str", "num"} -> TRUE
      [] v.t = "slice" -> \A i \in 1..Len(v.q) : Canonicalizable(v.q[i])
      [] v.t = "map" -> \A k \in DOMAIN v.m : Canonicalizable(v.m[k])
      [] OTHER -> FALSE

RECURSIVE Canon(_)
Canon(v) ==
    CASE v.t \in {"int", "float", "num"} -> Num(v.n)
      [] v.t = "str" -> v
      [] v.t = "slice" -> Slice([i \in 1..Len(v.q) |-> Canon(v.q[i])])
      [] v.t = "map" -> Map([k \in DOMAIN v.m |-> Canon(v.m[k])])
      [] OTHER -> Nil

InvalidInput == Failure("", "failureInvalidInput", None, None)

\* returns [c, value, ok]; c is the frame with the failure recorded, if any
canonValue(c, in) ==
    IF Canonicalizable(in)
    THEN [c |-> c, value |-> Canon(in), ok |-> TRUE]
    ELSE [c |-> fail(c, InvalidInput), value |-> Nil, ok |-> FALSE]

canonMap(c, in) ==
    IF Canonicalizable(in) /\ in.t = "map"
    THEN [c |-> c, value |-> Canon(in), ok |-> TRUE]
    ELSE [c |-> fail(c, InvalidInput), value |-> NilMap, ok |-> FALSE]

(***************************************************************************)
(* Object                                                                   *)
(***************************************************************************)
\* the enumerations of a finite set: Go ranges over a map in any order
Orderings(S) ==
    {q \in [1..Cardinality(S) -> S] : \A i, j \in DOMAIN q : q[i] = q[j] => i = j}

Wrapper(kind, chain, value) == [kind |-> kind, chain |-> chain, value |-> value]

\* NewObject without its nil check
NewObjectNilOk(in) ==
    LET r == canonMap([chain |-> makeChain, rep |-> <<>>],
                      IF in.nil THEN EmptyMap ELSE in.value)
    IN  [chain |-> r.c.chain, value |-> r.value, rep |-> r.c.rep]

\* in: [nil, value]; nil is the nil map
NewObject(in) ==
    LET c0 == [chain |-> makeChain, rep |-> <<>>]
    IN  IF in.nil
        THEN LET c == fail(c0, InvalidInput)
             IN  [chain |-> c.chain, value |-> NilMap, rep |-> c.rep]
        ELSE LET r == canonMap(c0, in.value)
             IN  [chain |-> r.c.chain, value |-> r.value, rep |-> r.c.rep]

Object_Keys(o, order) ==
    LET o1 == Into(o, "Object.Keys")
    IN  [self |-> o1,
         ret |-> Wrapper("Array", o1.chain,
                         Slice([i \in DOMAIN order |-> Str(order[i])]))]

Object_Values(o, order) ==
    LET o1 == Into(o, "Object.Values")
    IN  [self |-> o1,
         ret |-> Wrapper("Array", o1.chain,
                         Slice([i \in DOMAIN order |-> o1.value.m[order[i]]]))]

Object_Value(o, key) ==
    LET o1 == Into(o, "Object.Value")
    IN  IF key \notin DOMAIN o1.value.m
        THEN LET o2 == fail(o1, Failure("Object.Value", "failureAssertKey",
                                        key, o1.value))
             IN  [self |-> o2, ret |-> Wrapper("Value", o2.chain, Nil)]
        ELSE [self |-> o1, ret |-> Wrapper("Value", o1.chain, o1.value.m[key])]

Object_Equal(o, value) ==
    LET o1 == Into(o, "Object.Equal")
        r == canonMap(o1, value)
    IN  IF ~r.ok THEN r.c
        ELSE IF ~DeepEqual(r.value, o1.value)
             THEN fail(r.c, Failure("Object.Equal", "failureAssertEqual",
                                    r.value, o1.value))
             ELSE r.c

Object_NotEqual(o, v) ==
    LET o1 == Into(o, "Object.NotEqual")
        r == canonMap(o1, v)
    IN  IF ~r.ok THEN r.c
        ELSE IF DeepEqual(r.value, o1.value)
             THEN fail(r.c, Failure("Object.NotEqual", "failureAssertNotEqual",
                                    v, None))
             ELSE r.c

Object_Empty(o) == Object_Equal(Into(o, "Object.Empty"), EmptyMap)

Object_NotEmpty(o) == Object_NotEqual(Into(o, "Object.NotEmpty"), EmptyMap)

containsKey(o, key) == \E k \in DOMAIN o.value.m : k = key

Object_ContainsKey(o, key) ==
    LET o1 == Into(o, "Object.ContainsKey")
    IN  IF ~containsKey(o1, key)
        THEN fail(o1, Failure("Object.ContainsKey", "failureAssertKey",
                              key, o1.value))
        ELSE o1

Object_NotContainsKey(o, key) ==
    LET o1 == Into(o, "Object.NotContainsKey")
    IN  IF containsKey(o1, key)
        THEN fail(o1, Failure("Object.NotContainsKey", "failureAssertKey",
                              key, o1.value))
        ELSE o1

RECURSIVE checkContainsMap(_, _)
RECURSIVE containsLoop(_, _, _)

\* the range loop of checkContainsMap over the keys not visited yet; the
\* loop's result does not depend on the order Go visits them in
containsLoop(outer, inner, keys) ==
    IF keys = {} THEN TRUE
    ELSE LET k == CHOOSE x \in keys : TRUE
             iv == inner.m[k]
         IN  IF k \notin DOMAIN outer.m THEN FALSE
             ELSE LET ov == outer.m[k]
                  IN  IF IsMap(ov) /\ IsMap(iv)
                      THEN IF ~checkContainsMap(ov, iv) THEN FALSE
                           ELSE containsLoop(outer, inner, keys \ {k})
                      ELSE IF ~DeepEqual(ov, iv) THEN FALSE
                           ELSE containsLoop(outer, inner, keys \ {k})

\* checkContainsMap comparing key sets only
checkContainsMapKeysOnly(outer, inner) == DOMAIN inner.m \subseteq DOMAIN outer.m

\* checkContainsMap as plain equality
checkContainsMapExact(outer, inner) == DeepEqual(outer, inner)

checkContainsMap(outer, inner) == containsLoop(outer, inner, DOMAIN inner.m)

\* returns [c, res]: the frame after canonMap and the boolean result
containsMap(o, sm) ==
    LET r == canonMap(o, sm)
    IN  IF ~r.ok THEN [c |-> r.c, res |-> FALSE]
        ELSE [c |-> r.c, res |-> checkContainsMap(o.value, r.value)]

Object_ContainsMap(o, value) ==
    LET o1 == Into(o, "Object.ContainsMap")
        r == containsMap(o1, value)
    IN  IF ~r.res
        THEN fail(r.c, Failure("Object.ContainsMap", "failureAssertContains",
                               value, o1.value))
        ELSE r.c

Object_NotContainsMap(o, value) ==
    LET o1 == Into(o, "Object.NotContainsMap")
        r == containsMap(o1, value)
    IN  IF r.res
        THEN fail(r.c, Failure("Object.NotContainsMap",
                               "failureAssertNotContains", value, o1.value))
        ELSE r.c

\* ValueEqual without the failed() short-circuit
Object_ValueEqualNoShortCircuit(o, key, value) ==
    LET o1 == Object_ContainsKey(Into(o, "Object.ValueEqual"), key)
        r == canonValue(o1, value)
    IN  IF ~r.ok THEN r.c
        ELSE IF ~DeepEqual(r.value, Lookup(o1.value, key))
             THEN fail(r.c, Failure("Object.ValueEqual", "failureAssertEqual",
                                    r.value, Lookup(o1.value, key)))
             ELSE r.c

Object_ValueEqual(o, key, value) ==
    LET o1 == Object_ContainsKey(Into(o, "Object.ValueEqual"), key)
    IN  IF failed(o1.chain) THEN o1
        ELSE LET r == canonValue(o1, value)
             IN  IF ~r.ok THEN r.c
                 ELSE IF ~DeepEqual(r.value, Lookup(o1.value, key))
                      THEN fail(r.c, Failure("Object.ValueEqual",
                                             "failureAssertEqual", r.value,
                                             Lookup(o1.value, key)))
                      ELSE r.c

Object_ValueNotEqual(o, key, value) ==
    LET o1 == Object_ContainsKey(Into(o, "Object.ValueNotEqual"), key)
    IN  IF failed(o1.chain) THEN o1
        ELSE LET r == canonValue(o1, value)
             IN  IF ~r.ok THEN r.c
                 ELSE IF DeepEqual(r.value, Lookup(o1.value, key))
                      THEN fail(r.c, Failure("Object.ValueNotEqual",
                                             "failureAssertNotEqual", r.value,
                                             None))
                      ELSE r.c

(***************************************************************************)
(* Match.  A []string is [nil, s]: reflect.DeepEqual tells a nil slice      *)
(* from an empty one.  Go indexes from 0, TLA+ sequences from 1.            *)
(***************************************************************************)
StrSlice(s) == [nil |-> FALSE, s |-> s]
NilSlice == [nil |-> TRUE, s |-> <<>>]

DeepEqualStrings(a, b) == a.nil = b.nil /\ a.s = b.s

\* the range loop of makeMatch from position n (0-based) on
RECURSIVE namesLoop(_, _, _)
namesLoop(names, n, namemap) ==
    IF n >= Len(names) THEN namemap
    ELSE LET name == names[n + 1]
         IN  IF name # ""
             THEN namesLoop(names, n + 1,
                            [k \in DOMAIN namemap \cup {name} |->
                                IF k = name THEN n ELSE namemap[k]])
             ELSE namesLoop(names, n + 1, namemap)

makeMatch(chain, submatches, names) ==
    [chain |-> chain,
     value |-> [submatches |-> IF submatches.nil THEN StrSlice(<<>>)
                               ELSE submatches,
                names |-> namesLoop(names.s, 0, <<>>)]]

NewMatch(submatches, names) == makeMatch(makeChain, submatches, names)

Match_Length(m) ==
    LET m1 == Into(m, "Match.Length")
    IN  [self |-> m1,
         ret |-> Wrapper("Number", m1.chain, Num(Len(m1.value.submatches.s)))]

\* Index with expected and actual swapped in its Failure
Match_IndexSwapped(m, index) ==
    LET m1 == Into(m, "Match.Index")
        n == Len(m1.value.submatches.s)
    IN  IF index < 0 \/ index >= n
        THEN LET m2 == fail(m1, Failure("Match.Index",
                                        "failureAssertOutOfBounds", n, index))
             IN  [self |-> m2, ret |-> Wrapper("String", m2.chain, "")]
        ELSE [self |-> m1,
              ret |-> Wrapper("String", m1.chain,
                              m1.value.submatches.s[index + 1])]

Match_Index(m, index) ==
    LET m1 == Into(m, "Match.Index")
        n == Len(m1.value.submatches.s)
    IN  IF index < 0 \/ index >= n
        THEN LET m2 == fail(m1, Failure("Match.Index",
                                        "failureAssertOutOfBounds", index, n))
             IN  [self |-> m2, ret |-> Wrapper("String", m2.chain, "")]
        ELSE [self |-> m1,
              ret |-> Wrapper("String", m1.chain,
                              m1.value.submatches.s[index + 1])]

\* Name going on to Index, with the zero index, when the name is absent
Match_NameDelegates(m, name) ==
    LET m1 == Into(m, "Match.Name")
    IN  IF name \notin DOMAIN m1.value.names
        THEN Match_Index(fail(m1, Failure("Match.Name",
                                           "failureAssertMatchRe",
                                           m1.value.names, name)), 0)
        ELSE Match_Index(m1, m1.value.names[name])

Match_Name(m, name) ==
    LET m1 == Into(m, "Match.Name")
    IN  IF name \notin DOMAIN m1.value.names
        THEN LET m2 == fail(m1, Failure("Match.Name", "failureAssertMatchRe",
                                        m1.value.names, name))
             IN  [self |-> m2, ret |-> Wrapper("String", m2.chain, "")]
        ELSE Match_Index(m1, m1.value.names[name])

Match_Empty(m) ==
    LET m1 == Into(m, "Match.Empty")
    IN  IF Len(m1.value.submatches.s) # 0
        THEN fail(m1, Failure("Match.Empty", "failureAssertEmpty", None,
                              m1.value.submatches))
        ELSE m1

Match_NotEmpty(m) ==
    LET m1 == Into(m, "Match.NotEmpty")
    IN  IF Len(m1.value.submatches.s) = 0
        THEN fail(m1, Failure("Match.NotEmpty", "failureAssertNotEmpty",
                              None, None))
        ELSE m1

\* getValues keeping submatch 0
getValuesWhole(m) == m.value.submatches

getValues(m) ==
    IF Len(m.value.submatches.s) > 1
    THEN StrSlice(SubSeq(m.value.submatches.s, 2, Len(m.value.submatches.s)))
    ELSE StrSlice(<<>>)

Match_Values(m, values) ==
    LET m1 == Into(m, "Match.Values")
        vs == IF values.nil THEN StrSlice(<<>>) ELSE values
    IN  IF ~DeepEqualStrings(vs, getValues(m1))
        THEN fail(m1, Failure("Match.Values", "failureAssertEqual", vs,
                              getValues(m1)))
        ELSE m1

Match_NotValues(m, values) ==
    LET m1 == Into(m, "Match.NotValues")
        vs == IF values.nil THEN StrSlice(<<>>) ELSE values
    IN  IF DeepEqualStrings(vs, getValues(m1))
        THEN fail(m1, Failure("Match.NotValues", "failureAssertNotEqual", vs,
                              None))
        ELSE m1

(***************************************************************************)
(* String: the leaf wrapper Match.Index and Match.Name return               *)
(***************************************************************************)
String_Equal(str, value) ==
    LET s1 == Into(str, "String.Equal")
    IN  IF s1.value # value
        THEN fail(s1, Failure("String.Equal", "failureAssertEqual", value,
                              s1.value))
        ELSE s1

(***************************************************************************)
(* Inputs                                                                   *)
(***************************************************************************)
Keys == {"a", "b"}
KeyArgs == Keys \cup {"c"}

MapsOver(V) == UNION {[D -> V] : D \in SUBSET Keys}

InnerMap == Map("a" :> GoInt(1))

RootVals == {GoInt(1), InnerMap, Chan}
ArgVals == {GoFloat(1), InnerMap, Chan}

RootInputs == {[nil |-> TRUE, value |-> NilMap]}
              \cup {[nil |-> FALSE, value |-> Map(f)] : f \in MapsOver(RootVals)}
MapArgs == {Map(f) : f \in MapsOver(ArgVals)}
           \cup {Slice(<<GoInt(1), GoInt(2)>>), GoInt(1)}
ValArgs == ArgVals \cup {GoInt(2)}

Strings == {"x", "y"}
Names == {"", "host", "user"}
NameArgs == Names \cup {"missing"}

SeqsUpTo(S, n) == UNION {[1..k -> S] : k \in 0..n}

SubmatchInputs == {NilSlice} \cup {StrSlice(q) : q \in SeqsUpTo(Strings, MaxSub)}
NamesInputs == {NilSlice, StrSlice(<<>>), StrSlice(<<"", "">>),
                StrSlice(<<"", "host", "user">>),
                StrSlice(<<"", "host", "host">>),
                StrSlice(<<"user", "host">>),
                StrSlice(<<"host", "", "user", "host">>)}
IndexArgs == -1..(MaxSub + 1)
ValuesArgs == {NilSlice} \cup {StrSlice(q) : q \in SeqsUpTo(Strings, MaxSub)}
StringArgs == Strings \cup {""}

(***************************************************************************)
(* State machine.  root is the wrapper the test built, derived the          *)
(* wrappers it kept from navigation calls, last the record of the latest    *)
(* call: what it was given, whether the receiver's chain had failed         *)
(* before it, the Failures it forwarded to the Reporter, the wrapper it     *)
(* returned.  cm is the state of the checkContainsMap harness.              *)
(***************************************************************************)
CmOff == [pc |-> "off"]

Call(op, args, before, r, ret) ==
    [op |-> op, args |-> args, failedBefore |-> failed(before.chain),
     failures |-> r.rep, path |-> r.path, ret |-> ret]

InitObject ==
    \E in \in RootInputs :
        LET o == NewObject(in)
        IN  /\ root = [kind |-> "Object", chain |-> o.chain, value |-> o.value]
            /\ last = [op |-> "NewObject", args |-> in, failedBefore |-> FALSE,
                       failures |-> o.rep, path |-> <<"NewObject">>,
                       ret |-> None]

InitMatch ==
    \E sub \in SubmatchInputs, names \in NamesInputs :
        LET m == NewMatch(sub, names)
        IN  /\ root = [kind |-> "Match", chain |-> m.chain, value |-> m.value]
            /\ last = [op |-> "NewMatch",
                       args |-> [submatches |-> sub, names |-> names],
                       failedBefore |-> FALSE, failures |-> <<>>,
                       path |-> <<"NewMatch">>, ret |-> None]

InitO ==
    /\ InitObject
    /\ derived = <<>>
    /\ cm = CmOff

InitM ==
    /\ InitMatch
    /\ derived = <<>>
    /\ cm = CmOff

\* an assertion call on the root: it returns the receiver
Assertion(op, args, r) ==
    /\ root' = [root EXCEPT !.chain = r.chain, !.value = r.value]
    /\ last' = Call(op, args, root, r, None)
    /\ UNCHANGED <<derived, cm>>

\* a navigation call on the root: the caller keeps the returned wrapper or
\* drops it
Navigation(op, args, r) ==
    /\ root' = [root EXCEPT !.chain = r.self.chain, !.value = r.self.value]
    /\ last' = Call(op, args, root, r.self, r.ret)
    /\ \/ Len(derived) < MaxDerived /\ derived' = Append(derived, r.ret)
       \/ derived' = derived
    /\ cm' = cm

IsObject == root.kind = "Object"
IsMatch == root.kind = "Match"

CallKeys ==
    /\ IsObject
    /\ \E order \in Orderings(DOMAIN root.value.m) :
          Navigation("Object.Keys", [order |-> order],
                   Object_Keys(Frame(root), order))

CallValues ==
    /\ IsObject
    /\ \E order \in Orderings(DOMAIN root.value.m) :
          Navigation("Object.Values", [order |-> order],
                   Object_Values(Frame(root), order))

CallValue ==
    /\ IsObject
    /\ \E key \in KeyArgs :
          Navigation("Object.Value", [key |-> key],
                   Object_Value(Frame(root), key))

CallEmpty ==
    /\ IsObject
    /\ Assertion("Object.Empty", None, Object_Empty(Frame(root)))

CallNotEmpty ==
    /\ IsObject
    /\ Assertion("Object.NotEmpty", None, Object_NotEmpty(Frame(root)))

CallEqual ==
    /\ IsObject
    /\ \E value \in MapArgs :
          Assertion("Object.Equal", [value |-> value],
                 Object_Equal(Frame(root), value))

CallNotEqual ==
    /\ IsObject
    /\ \E value \in MapArgs :
          Assertion("Object.NotEqual", [value |-> value],
                 Object_NotEqual(Frame(root), value))

CallContainsKey ==
    /\ IsObject
    /\ \E key \in KeyArgs :
          Assertion("Object.ContainsKey", [key |-> key],
                 Object_ContainsKey(Frame(root), key))

CallNotContainsKey ==
    /\ IsObject
    /\ \E key \in KeyArgs :
          Assertion("Object.NotContainsKey", [key |-> key],
                 Object_NotContainsKey(Frame(root), key))

CallContainsMap ==
    /\ IsObject
    /\ \E value \in MapArgs :
          Assertion("Object.ContainsMap", [value |-> value],
                 Object_ContainsMap(Frame(root), value))

CallNotContainsMap ==
    /\ IsObject
    /\ \E value \in MapArgs :
          Assertion("Object.NotContainsMap", [value |-> value],
                 Object_NotContainsMap(Frame(root), value))

CallValueEqual ==
    /\ IsObject
    /\ \E key \in KeyArgs, value \in ValArgs :
          Assertion("Object.ValueEqual", [key |-> key, value |-> value],
                 Object_ValueEqual(Frame(root), key, value))

CallValueNotEqual ==
    /\ IsObject
    /\ \E key \in KeyArgs, value \in ValArgs :
          Assertion("Object.ValueNotEqual", [key |-> key, value |-> value],
                 Object_ValueNotEqual(Frame(root), key, value))

CallLength ==
    /\ IsMatch
    /\ Navigation("Match.Length", None, Match_Length(Frame(root)))

CallIndex ==
    /\ IsMatch
    /\ \E index \in IndexArgs :
          Navigation("Match.Index", [index |-> index],
                   Match_Index(Frame(root), index))

CallName ==
    /\ IsMatch
    /\ \E name \in NameArgs :
          Navigation("Match.Name", [name |-> name],
                   Match_Name(Frame(root), name))

CallMatchEmpty ==
    /\ IsMatch
    /\ Assertion("Match.Empty", None, Match_Empty(Frame(root)))

CallMatchNotEmpty ==
    /\ IsMatch
    /\ Assertion("Match.NotEmpty", None, Match_NotEmpty(Frame(root)))

CallMatchValues ==
    /\ IsMatch
    /\ \E values \in ValuesArgs :
          Assertion("Match.Values", [values |-> values],
                 Match_Values(Frame(root), values))

CallMatchNotValues ==
    /\ IsMatch
    /\ \E values \in ValuesArgs :
          Assertion("Match.NotValues", [values |-> values],
                 Match_NotValues(Frame(root), values))

\* an assertion on a kept String wrapper: it writes that wrapper's chain
CallStringEqual ==
    /\ IsMatch
    /\ \E i \in DOMAIN derived, value \in StringArgs :
          /\ derived[i].kind = "String"
          /\ LET r == String_Equal(Frame(derived[i]), value)
             IN  /\ derived' = [derived EXCEPT ![i].chain = r.chain]
                 /\ last' = Call("String.Equal", [i |-> i, value |-> value],
                                 derived[i], r, None)
    /\ UNCHANGED <<root, cm>>

NextObject ==
    \/ CallKeys \/ CallValues \/ CallValue \/ CallEmpty \/ CallNotEmpty
    \/ CallEqual \/ CallNotEqual \/ CallContainsKey \/ CallNotContainsKey
    \/ CallContainsMap \/ CallNotContainsMap \/ CallValueEqual
    \/ CallValueNotEqual

NextMatch ==
    \/ CallLength \/ CallIndex \/ CallName \/ CallMatchEmpty
    \/ CallMatchNotEmpty \/ CallMatchValues \/ CallMatchNotValues
    \/ CallStringEqual

Init == InitO \/ InitM

Next == NextObject \/ NextMatch

Spec == Init /\ [][Next]_vars

SpecObject == InitO /\ [][NextObject]_vars

SpecMatch == InitM /\ [][NextMatch]_vars

(***************************************************************************)
(* checkContainsMap on its own: canonical mappings in, the result out,      *)
(* then once more with one key of inner removed.                            *)
(***************************************************************************)
CScalars == {Num(1), Num(2), Str("x")}
CSeqs == {Slice(<<Num(1), Num(2)>>), Slice(<<Num(1), Num(2), Num(3)>>)}
CMaps1 == {Map(f) : f \in MapsOver({Num(1), Num(2)})}
CMaps2 == {Map("a" :> v) : v \in {Map("a" :> Num(1)), Map("a" :> Num(2)),
                                  Map("a" :> Num(1) @@ "b" :> Num(2))}}
CVals == CScalars \cup CSeqs \cup CMaps1 \cup CMaps2
CMaps == {Map(f) : f \in MapsOver(CVals)}

Without(v, key) == Map([k \in DOMAIN v.m \ {key} |-> v.m[k]])

InitC ==
    /\ root = None
    /\ derived = <<>>
    /\ last = None
    /\ \E outer \in CMaps \cup {NilMap}, inner \in CMaps :
          cm = [pc |-> "in", outer |-> outer, inner |-> inner,
                result |-> FALSE, prev |-> FALSE]

Apply ==
    /\ cm.pc = "in"
    /\ cm' = [cm EXCEPT !.pc = "done",
                        !.result = checkContainsMap(cm.outer, cm.inner)]
    /\ UNCHANGED <<root, derived, last>>

RemoveKey ==
    /\ cm.pc = "done"
    /\ \E key \in DOMAIN cm.inner.m :
          LET less == Without(cm.inner, key)
          IN  cm' = [pc |-> "removed", outer |-> cm.outer, inner |-> less,
                     result |-> checkContainsMap(cm.outer, less),
                     prev |-> cm.result]
    /\ UNCHANGED <<root, derived, last>>

NextC == Apply \/ RemoveKey

SpecContains == InitC /\ [][NextC]_vars

(***************************************************************************)
(* Claims                                                                   *)
(***************************************************************************)
Called(op) == last # None /\ last.op = op

OneFailure(name, type) ==
    /\ Len(last.failures) = 1
    /\ last.failures[1].assertionName = name
    /\ last.failures[1].assertType = type

\* C1: every wrapper derived from a root reports the same failed() as the
\* root, whichever of them an assertion failed on, and whether it was derived
\* before or after the failure.
C1_ChainShared ==
    \A i \in DOMAIN derived : failed(derived[i].chain) = failed(root.chain)

\* C2: ValueEqual and ValueNotEqual called on a chain that has already
\* failed, with the key present, still compare the value and report a
\* violation.
C2_FailedChainStillChecks ==
    /\ ( /\ Called("Object.ValueEqual")
         /\ last.failedBefore
         /\ last.args.key \in DOMAIN root.value.m
         /\ Canonicalizable(last.args.value)
         /\ Canon(last.args.value) # root.value.m[last.args.key] )
       => \E i \in DOMAIN last.failures :
             last.failures[i].assertionName = "Object.ValueEqual"
    /\ ( /\ Called("Object.ValueNotEqual")
         /\ last.failedBefore
         /\ last.args.key \in DOMAIN root.value.m
         /\ Canonicalizable(last.args.value)
         /\ Canon(last.args.value) = root.value.m[last.args.key] )
       => \E i \in DOMAIN last.failures :
             last.failures[i].assertionName = "Object.ValueNotEqual"

\* C3: one call records at most one Failure, and a call of Equal, NotEqual,
\* ContainsMap or NotContainsMap whose argument fails canonicalization
\* records the invalid-input Failure and nothing else.
C3_ReportedOnce ==
    /\ last.op # "NewObject" => Len(last.failures) <= 1
    /\ ( /\ last.op \in {"Object.Equal", "Object.NotEqual",
                         "Object.ContainsMap", "Object.NotContainsMap"}
         /\ ~(Canonicalizable(last.args.value) /\ IsMap(last.args.value)) )
       => last.failures = <<InvalidInput>>

\* partial-map containment as the claim words it
RECURSIVE PartialContains(_, _)
PartialContains(outer, inner) ==
    \A k \in DOMAIN inner.m :
        /\ k \in DOMAIN outer.m
        /\ IF IsMap(outer.m[k]) /\ IsMap(inner.m[k])
           THEN PartialContains(outer.m[k], inner.m[k])
           ELSE outer.m[k] = inner.m[k]

Seq12 == Slice(<<Num(1), Num(2)>>)
Seq123 == Slice(<<Num(1), Num(2), Num(3)>>)

\* C4: checkContainsMap(outer, inner) is true exactly when every key of
\* inner is in outer with, for two mappings, containment again, and otherwise
\* an equal value; a sequence is contained only by an equal sequence.
C4_PartialMapContainment ==
    cm.pc \in {"done", "removed"} =>
        /\ cm.result = PartialContains(cm.outer, cm.inner)
        /\ cm.result => \A k \in DOMAIN cm.inner.m :
              /\ k \in DOMAIN cm.outer.m
              /\ cm.inner.m[k].t = "slice" => cm.outer.m[k] = cm.inner.m[k]
        /\ ( /\ "a" \in DOMAIN cm.outer.m /\ cm.outer.m["a"] = Seq123
             /\ "a" \in DOMAIN cm.inner.m /\ cm.inner.m["a"] = Seq12 )
           => ~cm.result

C4_Witness ==
    /\ cm.pc = "done"
    /\ cm.result
    /\ \E k \in DOMAIN cm.inner.m :
          /\ IsMap(cm.inner.m[k])
          /\ cm.inner.m[k] # cm.outer.m[k]
          /\ \E j \in DOMAIN cm.inner.m[k].m : IsMap(cm.inner.m[k].m[j])

\* C5: Index(i) inside the bounds returns the String of submatches[i] and
\* records nothing; outside them it records one out-of-bounds Failure with
\* expected = i and actual = len(submatches) and returns the String "".
C5_Index ==
    Called("Match.Index") =>
        LET i == last.args.index
            s == root.value.submatches.s
        IN  /\ last.ret.kind = "String"
            /\ IF 0 <= i /\ i < Len(s)
               THEN /\ last.failures = <<>>
                    /\ last.ret.value = s[i + 1]
               ELSE /\ OneFailure("Match.Index", "failureAssertOutOfBounds")
                    /\ last.failures[1].expected = i
                    /\ last.failures[1].actual = Len(s)
                    /\ last.ret.value = ""

C5_Witness ==
    /\ Called("Match.Index")
    /\ last.args.index >= Len(root.value.submatches.s)
    /\ Len(root.value.submatches.s) > 0
    /\ Len(last.failures) = 1
    /\ last.ret.value = ""
    /\ \E i \in DOMAIN derived : derived[i] = last.ret

\* the name table the names list gives: empty names skipped, the last
\* position of a name wins
IsNameTable(table, names) ==
    /\ "" \notin DOMAIN table
    /\ \A i \in DOMAIN names :
          names[i] # "" =>
              /\ names[i] \in DOMAIN table
              /\ table[names[i]] + 1 >= i
    /\ \A name \in DOMAIN table :
          /\ table[name] + 1 \in DOMAIN names
          /\ names[table[name] + 1] = name

\* C6 as amended: the table is built at construction, empty names skipped
\* and the last position winning; Name of a name in the table is Index of
\* its position; Name of an absent name records the one pattern-mismatch
\* Failure, with the table as expected and the name as actual, and returns
\* the String "" without entering Index.
C6_Name ==
    /\ Called("NewMatch") => IsNameTable(root.value.names, last.args.names.s)
    /\ Called("Match.Name") =>
          LET name == last.args.name
              table == root.value.names
              s == root.value.submatches.s
          IN  /\ last.ret.kind = "String"
              /\ IF name \in DOMAIN table
                 THEN /\ last.path = <<"Match.Name", "Match.Index">>
                      /\ IF table[name] < Len(s)
                         THEN /\ last.failures = <<>>
                              /\ last.ret.value = s[table[name] + 1]
                         ELSE /\ OneFailure("Match.Index",
                                            "failureAssertOutOfBounds")
                              /\ last.failures[1].expected = table[name]
                              /\ last.failures[1].actual = Len(s)
                              /\ last.ret.value = ""
                 ELSE /\ OneFailure("Match.Name", "failureAssertMatchRe")
                      /\ last.failures[1].expected = table
                      /\ last.failures[1].actual = name
                      /\ last.ret.value = ""
                      /\ last.path = <<"Match.Name">>

C6_Witness ==
    /\ Called("Match.Name")
    /\ last.args.name \notin DOMAIN root.value.names
    /\ Cardinality(DOMAIN root.value.names) = 2
    /\ Len(root.value.submatches.s) > 0
    /\ Len(last.failures) = 1

\* C6 as the spec words it: Name of an absent name records the
\* pattern-mismatch Failure and then goes on to the bounds-checked Index.
C6_AbsentNameDelegates ==
    ( /\ Called("Match.Name")
      /\ last.args.name \notin DOMAIN root.value.names )
    => /\ OneFailure("Match.Name", "failureAssertMatchRe")
       /\ last.ret.value = ""
       /\ \E i \in DOMAIN last.path : last.path[i] = "Match.Index"

\* vs differs from submatches[1:] in length or at some position
DiffersFromTail(vs, s) ==
    IF Len(vs) # (IF Len(s) = 0 THEN 0 ELSE Len(s) - 1) THEN TRUE
    ELSE \E i \in DOMAIN vs : vs[i] # s[i + 1]

\* C7: Values records one Failure of kind equal exactly when its arguments
\* differ from submatches[1:], NotValues one of kind not-equal exactly when
\* they are the same; no arguments are the empty list.
C7_Values ==
    /\ Called("Match.Values") =>
          IF DiffersFromTail(last.args.values.s, root.value.submatches.s)
          THEN OneFailure("Match.Values", "failureAssertEqual")
          ELSE last.failures = <<>>
    /\ Called("Match.NotValues") =>
          IF DiffersFromTail(last.args.values.s, root.value.submatches.s)
          THEN last.failures = <<>>
          ELSE OneFailure("Match.NotValues", "failureAssertNotEqual")

C7_Witness ==
    /\ Called("Match.Values")
    /\ Len(root.value.submatches.s) = 2
    /\ last.args.values.s = <<root.value.submatches.s[2]>>
    /\ last.args.values.s # <<root.value.submatches.s[1]>>
    /\ last.failures = <<>>

\* C8: a mapping contains itself, and when outer contains inner it contains
\* inner with any one key removed.
C8_ReflexiveMonotonic ==
    /\ (cm.pc \in {"done", "removed"} /\ cm.outer = cm.inner) => cm.result
    /\ (cm.pc = "removed" /\ cm.prev) => cm.result

C8_Witness ==
    /\ cm.pc = "removed"
    /\ cm.prev
    /\ cm.result
    /\ cm.inner # EmptyMap
    /\ \E k \in DOMAIN cm.inner.m : IsMap(cm.inner.m[k])

\* C9: ValueEqual and ValueNotEqual on an Object without the key record the
\* key-missing Failure of ContainsKey and nothing else, whatever the value,
\* and return the Object as it was.
C9_MissingKeyShortCircuit ==
    /\ []( ( /\ last.op \in {"Object.ValueEqual", "Object.ValueNotEqual"}
             /\ last.args.key \notin DOMAIN root.value.m )
           => /\ OneFailure("Object.ContainsKey", "failureAssertKey")
              /\ last.failures[1].expected = last.args.key
              /\ last.ret = None )
    /\ [][last'.op \in {"Object.ValueEqual", "Object.ValueNotEqual"}
            => root'.value = root.value]_vars

C9_Witness ==
    /\ Called("Object.ValueEqual")
    /\ last.args.key \notin DOMAIN root.value.m
    /\ ~Canonicalizable(last.args.value)
    /\ ~last.failedBefore
    /\ Len(last.failures) = 1

\* C10: NewMatch, and NewObject on a canonicalizable non-nil map, give a
\* chain that has not failed, NewObject on nil one that has; and a chain
\* that has failed stays failed after every later call.
C10_ChainMonotonic ==
    /\ [](Called("NewMatch") => ~failed(root.chain))
    /\ [](Called("NewObject") =>
             (failed(root.chain) <=>
                 (last.args.nil \/ ~Canonicalizable(last.args.value))))
    /\ [][ /\ failed(root.chain) => failed(root'.chain)
           /\ \A i \in DOMAIN derived :
                 failed(derived[i].chain) => failed(derived'[i].chain) ]_vars

C10_Witness ==
    /\ failed(root.chain)
    /\ last.op \notin {"NewObject", "NewMatch"}
    /\ last.failedBefore
    /\ last.failures = <<>>
    /\ \E i \in DOMAIN derived : failed(derived[i].chain)

====
